---- MODULE Spec2Model ----
(***************************************************************************)
(* A model of src/agent.py, the PatentScraper.                             *)
(*                                                                         *)
(* Two specifications share the variables:                                 *)
(*   SpecAssess  one call of assess_innovation_potential on a record drawn *)
(*               from bounded sets of timestamps, star counts and          *)
(*               descriptions;                                             *)
(*   Spec        one run of scrape_patent_opportunities: three search      *)
(*               requests, the assessment of the first records of each     *)
(*               response, and the packaging of the result.                *)
(*                                                                         *)
(* Text is a sequence of one-character strings, so that lower-casing and   *)
(* substring search are computed and not assumed.  Instants are whole      *)
(* hours on one clock.                                                     *)
(***************************************************************************)
EXTENDS Integers, Sequences, FiniteSets, TLC

VARIABLES
    pc,           \* position of the program
    now,          \* the clock read by datetime.now
    repo,         \* SpecAssess: the record passed to the assessor
    outcome,      \* SpecAssess: what the call returned or raised
    qi,           \* index of the query being processed
    response,     \* the last HTTP response received
    repos,        \* the list search_repos returned for the current query
    idx,          \* position in repos of the next record to assess
    innovations,  \* the list analyze_github_innovations builds
    requests,     \* history: the HTTP requests issued so far
    assessed,     \* history: the calls of the assessor made so far
    raised,       \* the exception that ended the run, if any
    result        \* what scrape_patent_opportunities returned

vars ==
    <<pc, now, repo, outcome, qi, response, repos, idx, innovations,
      requests, assessed, raised, result>>

-----------------------------------------------------------------------------
(* Bounds of the model.                                                    *)

\* Longest item list a response carries.
MaxItems == 6

\* Largest star count drawn for the assessor, besides ExtraStars.
MaxStars == 31

\* Most vocabulary words joined into a generated description.
MaxWords == 2

-----------------------------------------------------------------------------
(* Program constants.                                                      *)

HoursPerDay == 24
RecentDays == 90
RecentPoints == 20
StarCap == 30
InnovationPoints == 10
TechPoints == 8
ScoreCap == 100
Threshold == 70
PerQuery == 5
StatusOk == 200

Min(a, b) == IF a < b THEN a ELSE b

-----------------------------------------------------------------------------
(* Text.                                                                   *)

\* "novel"
KwNovel ==
    <<"n", "o", "v", "e", "l">>
\* "new"
KwNew ==
    <<"n", "e", "w">>
\* "innovative"
KwInnovative ==
    <<"i", "n", "n", "o", "v", "a", "t", "i", "v", "e">>
\* "breakthrough"
KwBreakthrough ==
    <<"b", "r", "e", "a", "k", "t", "h", "r", "o", "u", "g", "h">>
\* "unique"
KwUnique ==
    <<"u", "n", "i", "q", "u", "e">>
\* "original"
KwOriginal ==
    <<"o", "r", "i", "g", "i", "n", "a", "l">>
\* "ai"
KwAi ==
    <<"a", "i">>
\* "machine learning"
KwMachineLearning ==
    <<"m", "a", "c", "h", "i", "n", "e", " ", "l", "e", "a", "r", "n", "i",
      "n", "g">>
\* "blockchain"
KwBlockchain ==
    <<"b", "l", "o", "c", "k", "c", "h", "a", "i", "n">>
\* "automation"
KwAutomation ==
    <<"a", "u", "t", "o", "m", "a", "t", "i", "o", "n">>
\* "algorithm"
KwAlgorithm ==
    <<"a", "l", "g", "o", "r", "i", "t", "h", "m">>
\* "Novel"
WordNovel ==
    <<"N", "o", "v", "e", "l">>
\* "renewal"
WordRenewal ==
    <<"r", "e", "n", "e", "w", "a", "l">>
\* "AI"
WordAI ==
    <<"A", "I">>
\* "Machine"
WordMachine ==
    <<"M", "a", "c", "h", "i", "n", "e">>
\* "Learning"
WordLearning ==
    <<"L", "e", "a", "r", "n", "i", "n", "g">>
\* "a novel AI algorithm"
DescNovelAiAlgorithm ==
    <<"a", " ", "n", "o", "v", "e", "l", " ", "A", "I", " ", "a", "l", "g",
      "o", "r", "i", "t", "h", "m">>
\* "INNOVATIVE"
DescInnovativeUpper ==
    <<"I", "N", "N", "O", "V", "A", "T", "I", "V", "E">>
\* "innovative"
DescInnovativeLower ==
    <<"i", "n", "n", "o", "v", "a", "t", "i", "v", "e">>
\* "novel new innovative breakthrough unique original"
DescAllInnovation ==
    <<"n", "o", "v", "e", "l", " ", "n", "e", "w", " ", "i", "n", "n", "o",
      "v", "a", "t", "i", "v", "e", " ", "b", "r", "e", "a", "k", "t", "h",
      "r", "o", "u", "g", "h", " ", "u", "n", "i", "q", "u", "e", " ", "o",
      "r", "i", "g", "i", "n", "a", "l">>
\* "Novel new innovative breakthrough unique original AI machine learning blockchain automation algorithm"
DescAllKeywords ==
    <<"N", "o", "v", "e", "l", " ", "n", "e", "w", " ", "i", "n", "n", "o",
      "v", "a", "t", "i", "v", "e", " ", "b", "r", "e", "a", "k", "t", "h",
      "r", "o", "u", "g", "h", " ", "u", "n", "i", "q", "u", "e", " ", "o",
      "r", "i", "g", "i", "n", "a", "l", " ", "A", "I", " ", "m", "a", "c",
      "h", "i", "n", "e", " ", "l", "e", "a", "r", "n", "i", "n", "g", " ",
      "b", "l", "o", "c", "k", "c", "h", "a", "i", "n", " ", "a", "u", "t",
      "o", "m", "a", "t", "i", "o", "n", " ", "a", "l", "g", "o", "r", "i",
      "t", "h", "m">>
\* "novel new unique original AI algorithm"
DescManyKeywords ==
    <<"n", "o", "v", "e", "l", " ", "n", "e", "w", " ", "u", "n", "i", "q",
      "u", "e", " ", "o", "r", "i", "g", "i", "n", "a", "l", " ", "A", "I",
      " ", "a", "l", "g", "o", "r", "i", "t", "h", "m">>

\* str.lower on one character: the ASCII capitals map to their small
\* letters, every other character of the model's alphabet is unchanged.
LowerTable ==
    [A |-> "a", B |-> "b", C |-> "c", D |-> "d", E |-> "e", F |-> "f",
     G |-> "g", H |-> "h", I |-> "i", J |-> "j", K |-> "k", L |-> "l",
     M |-> "m", N |-> "n", O |-> "o", P |-> "p", Q |-> "q", R |-> "r",
     S |-> "s", T |-> "t", U |-> "u", V |-> "v", W |-> "w", X |-> "x",
     Y |-> "y", Z |-> "z"]

LowerCharIdentity(c) == c

LowerChar(c) == IF c \in DOMAIN LowerTable THEN LowerTable[c] ELSE c

\* str.lower
Lower(s) == [i \in 1..Len(s) |-> LowerChar(s[i])]

\* k in s, for two strings
Contains(k, s) ==
    \E i \in 0..(Len(s) - Len(k)) : SubSeq(s, i + 1, i + Len(k)) = k

innovation_keywords ==
    <<KwNovel, KwNew, KwInnovative, KwBreakthrough, KwUnique, KwOriginal>>

tech_keywords ==
    <<KwAi, KwMachineLearning, KwBlockchain, KwAutomation, KwAlgorithm>>

\* " ".join(words)
RECURSIVE Join(_)
Join(words) ==
    IF Len(words) = 0 THEN <<>>
    ELSE IF Len(words) = 1 THEN words[1]
    ELSE words[1] \o <<" ">> \o Join(Tail(words))

-----------------------------------------------------------------------------
(* JSON values and repository records.                                     *)

\* A JSON string and JSON null, as json() decodes them (str and None).
Str(s) == [t |-> "str", v |-> s]
Null == [t |-> "null"]

\* The text of a timestamp: a well-formed ISO-8601 date and time `hour`
\* with the zone designator `zone` ("" when it has none), or other text.
Iso(hour, zone) == [form |-> "iso", hour |-> hour, zone |-> zone]
Garbage(zone) == [form |-> "other", hour |-> 0, zone |-> zone]

\* Offset in hours of the zone designators fromisoformat accepts.
ZoneOffsets == [n \in {"+00:00", "+02:00"} |-> IF n = "+02:00" THEN 2 ELSE 0]

\* str.replace('Z', '+00:00') on the text of a timestamp
ReplaceZ(ts) == IF ts.zone = "Z" THEN [ts EXCEPT !.zone = "+00:00"] ELSE ts

\* datetime.fromisoformat: the instant on the UTC clock for an aware value,
\* the wall-clock reading for a naive one; ValueError for any other text
\* (a bare "Z" designator included, which is why the caller replaces it).
FromIsoFormat(ts) ==
    IF ts.form = "iso" /\ ts.zone = ""
    THEN [ok |-> TRUE, hour |-> ts.hour, aware |-> FALSE]
    ELSE IF ts.form = "iso" /\ ts.zone \in DOMAIN ZoneOffsets
    THEN [ok |-> TRUE, hour |-> ts.hour - ZoneOffsets[ts.zone], aware |-> TRUE]
    ELSE [ok |-> FALSE, exc |-> "ValueError"]

\* dict.get(key, default)
Get(d, key, default) == IF key \in DOMAIN d THEN d[key] ELSE default

Record(ts, stars, desc) ==
    [created_at |-> ts, stargazers_count |-> stars, description |-> desc]

RecordWithoutDescription(ts, stars) ==
    [created_at |-> ts, stargazers_count |-> stars]

-----------------------------------------------------------------------------
(* assess_innovation_potential.                                            *)

Returned(v) == [ok |-> TRUE, value |-> v]
Raised(e) == [ok |-> FALSE, exc |-> e]

\* timedelta.days of (t - created): whole days, rounded down
DaysOld(created, t) == (t - created) \div HoursPerDay

\* if days_old < 90: score += 20
Recency(days_old) == IF days_old < RecentDays THEN RecentPoints ELSE 0

StarMomentumUncapped(stars) == stars

\* score += min(repo['stargazers_count'], 30)
StarMomentum(stars) == Min(stars, StarCap)

RECURSIVE KeywordLoopFirstMatch(_, _, _, _, _)
KeywordLoopFirstMatch(score, keywords, i, desc, points) ==
    IF i > Len(keywords) THEN score
    ELSE IF Contains(keywords[i], desc) THEN score + points
    ELSE KeywordLoopFirstMatch(score, keywords, i + 1, desc, points)

\* for keyword in keywords: if keyword in desc: score += points
RECURSIVE KeywordLoop(_, _, _, _, _)
KeywordLoop(score, keywords, i, desc, points) ==
    IF i > Len(keywords) THEN score
    ELSE KeywordLoop(IF Contains(keywords[i], desc) THEN score + points
                     ELSE score,
                     keywords, i + 1, desc, points)

ClampNone(score) == score

\* return min(score, 100)
Clamp(score) == Min(score, ScoreCap)

assess_innovation_potential(r, t) ==
    LET created_date == FromIsoFormat(ReplaceZ(r.created_at))
    IN  IF ~created_date.ok THEN Raised(created_date.exc)
        ELSE
        LET days_old == DaysOld(created_date.hour, t)
            score1 == Recency(days_old)
            score2 == score1 + StarMomentum(r.stargazers_count)
            description == Get(r, "description", Str(<<>>))
        IN  IF description.t # "str" THEN Raised("AttributeError")
            ELSE
            LET desc == Lower(description.v)
                score3 == KeywordLoop(score2, innovation_keywords, 1, desc,
                                      InnovationPoints)
                score4 == KeywordLoop(score3, tech_keywords, 1, desc,
                                      TechPoints)
            IN  Returned(Clamp(score4))

-----------------------------------------------------------------------------
(* Inputs.                                                                 *)

\* Clock readings: the second is one hour after the first.
Nows == {5000, 5001}

\* Creation hours: 10 days, 89 days 23 hours, 90 days and 200 days before
\* the first clock reading, and 5 hours after it.
CreatedHours == {4760, 2841, 2840, 200, 5005}

Zones == {"Z", "+02:00", ""}

Timestamps ==
    {Iso(h, z) : h \in CreatedHours, z \in Zones}
        \cup {Garbage(""), Garbage("Z")}

ExtraStars == {40, 50}

StarCounts ==
    {s \in 0..MaxStars : s % 5 = 0 \/ s >= StarCap - 1} \cup ExtraStars

Vocabulary == {WordNovel, WordRenewal, WordAI, WordMachine, WordLearning}

WordLists == UNION {[1..n -> Vocabulary] : n \in 0..MaxWords}

Descriptions ==
    {Join(w) : w \in WordLists}
        \cup {DescNovelAiAlgorithm, DescInnovativeUpper, DescInnovativeLower,
              DescAllInnovation, DescAllKeywords, DescManyKeywords}

\* The records the assessor is called on in SpecAssess: the description is
\* a string, null, or missing.
TestRecords ==
    {Record(ts, s, Str(d)) : ts \in Timestamps, s \in StarCounts,
                             d \in Descriptions}
        \cup {Record(ts, s, Null) : ts \in Timestamps, s \in StarCounts}
        \cup {RecordWithoutDescription(ts, s) :
                  ts \in Timestamps, s \in StarCounts}

\* The repositories the search service knows, in the order it lists them.
Recent == Iso(4760, "Z")

Catalogue ==
    << Record(Recent, 40, Str(DescNovelAiAlgorithm)),          \* 76
       Record(Recent, 25, Str(DescNovelAiAlgorithm)),          \* 71
       Record(Recent, 30, Str(DescManyKeywords)),              \* 106 -> 100
       Record(Iso(2841, "Z"), 25, Str(DescNovelAiAlgorithm)),  \* 71 or 51
       Record(Iso(5005, "+02:00"), 50, Str(DescInnovativeUpper \o <<" ">>
                                             \o DescNovelAiAlgorithm)), \* 86
       Record(Garbage("Z"), 50, Str(DescNovelAiAlgorithm)),    \* ValueError
       Record(Recent, 24, Str(DescNovelAiAlgorithm)),          \* 70
       RecordWithoutDescription(Recent, 12),                   \* 32
       Record(Recent, 30, Null) >>                             \* no description

\* The item lists a response can carry: a run of the catalogue.
ItemLists ==
    {SubSeq(Catalogue, s, Min(s + n - 1, Len(Catalogue))) :
        s \in 1..Len(Catalogue), n \in 0..MaxItems}

\* A response body: a JSON object with or without an "items" list.
BodyWithItems(items) == [items |-> items]
BodyWithoutItems == [message |-> "error"]

Responses ==
    {[status_code |-> StatusOk, body |-> BodyWithItems(l)] : l \in ItemLists}
        \cup {[status_code |-> StatusOk, body |-> BodyWithoutItems]}
        \cup {[status_code |-> 403, body |-> BodyWithoutItems],
              [status_code |-> 500,
               body |-> BodyWithItems(SubSeq(Catalogue, 1, 2))]}

innovative_queries ==
    << "novel algorithm created:>2024-01-01 stars:>20",
       "new framework created:>2024-01-01 stars:>15",
       "innovative system created:>2024-01-01 stars:>10" >>

\* find_expired_patents and find_patent_gaps return fixed lists; the model
\* keeps the identifying field of each entry.
expired_patents == <<"US7654321", "US8765432">>

trending_techs ==
    << "AI agent orchestration", "Serverless automation frameworks",
       "Cross-platform development tools", "Blockchain automation systems",
       "Voice-controlled programming interfaces" >>

None == [t |-> "none"]

-----------------------------------------------------------------------------
(* SpecAssess: one call of the assessor.                                   *)

InitAssess ==
    /\ pc = "call"
    /\ now \in Nows
    /\ repo \in TestRecords
    /\ outcome = None
    /\ qi = 0
    /\ response = None
    /\ repos = <<>>
    /\ idx = 0
    /\ innovations = <<>>
    /\ requests = <<>>
    /\ assessed = <<>>
    /\ raised = None
    /\ result = None

Assess ==
    /\ pc = "call"
    /\ outcome' = assess_innovation_potential(repo, now)
    /\ pc' = "returned"
    /\ UNCHANGED <<now, repo, qi, response, repos, idx, innovations,
                   requests, assessed, raised, result>>

NextAssess == Assess

SpecAssess == InitAssess /\ [][NextAssess]_vars

-----------------------------------------------------------------------------
(* Spec: one run of scrape_patent_opportunities.                           *)

SearchReposAnyStatus(resp) == Get(resp.body, "items", <<>>)

\* search_repos, given the response requests.get returned
search_repos(resp) ==
    IF resp.status_code = StatusOk
    THEN Get(resp.body, "items", <<>>)
    ELSE <<>>

FirstSix(list) == SubSeq(list, 1, Min(Len(list), PerQuery + 1))

\* repos[:5]
FirstFive(list) == SubSeq(list, 1, Min(Len(list), PerQuery))

RetainedInclusive(score) == score >= Threshold

\* if innovation_score > 70
Retained(score) == score > Threshold

\* The entry appended to innovations (patent_potential is a fixed table
\* and commercial_value a formatting of the score; the model keeps the
\* number that is formatted).
Entry(r, score) ==
    [repo |-> r, innovation_score |-> score, commercial_value |-> score * 10000]

\* Where the two loops of analyze_github_innovations stand when the inner
\* loop of query q is about to take item i of n: at that item, at the
\* request of the next query, or past both loops.
LoopPosition(q, i, n) ==
    IF i <= n THEN [pc |-> "assess", qi |-> q, idx |-> i]
    ELSE IF q < Len(innovative_queries)
    THEN [pc |-> "search", qi |-> q + 1, idx |-> 0]
    ELSE [pc |-> "package", qi |-> q, idx |-> 0]

\* package_patent_opportunities
package_patent_opportunities(expired, gaps, found) ==
    [t |-> "package", expired_patents |-> expired, patent_gaps |-> gaps,
     github_innovations |-> found]

Init ==
    /\ pc = "start"
    /\ now \in Nows
    /\ repo = None
    /\ outcome = None
    /\ qi = 0
    /\ response = None
    /\ repos = <<>>
    /\ idx = 0
    /\ innovations = <<>>
    /\ requests = <<>>
    /\ assessed = <<>>
    /\ raised = None
    /\ result = None

\* scrape_patent_opportunities up to the first request: the two fixed
\* lists are built and analyze_github_innovations starts with an empty list.
Scrape ==
    /\ pc = "start"
    /\ pc' = "search"
    /\ qi' = 1
    /\ innovations' = <<>>
    /\ UNCHANGED <<now, repo, outcome, response, repos, idx, requests,
                   assessed, raised, result>>

\* repos = self.search_repos(query): one request, one response
SearchRepos ==
    /\ pc = "search"
    /\ \E resp \in Responses :
          LET list == search_repos(resp)
              at == LoopPosition(qi, 1, Len(FirstFive(list)))
          IN  /\ response' = resp
              /\ requests' =
                     Append(requests,
                            [query |-> innovative_queries[qi],
                             status_code |-> resp.status_code,
                             returned |-> Len(list)])
              /\ repos' = list
              /\ pc' = at.pc
              /\ qi' = at.qi
              /\ idx' = at.idx
    /\ UNCHANGED <<now, repo, outcome, innovations, assessed, raised, result>>

\* One pass of the inner loop: the record is assessed and, above the
\* threshold, appended; an exception of the assessor ends the run.
AssessRepo ==
    /\ pc = "assess"
    /\ LET r == FirstFive(repos)[idx]
           got == assess_innovation_potential(r, now)
           at == LoopPosition(qi, idx + 1, Len(FirstFive(repos)))
       IN  /\ assessed' =
                  Append(assessed,
                         [query |-> qi, position |-> idx, repo |-> r,
                          outcome |-> got])
           /\ IF got.ok
              THEN /\ innovations' =
                         IF Retained(got.value)
                         THEN Append(innovations, Entry(r, got.value))
                         ELSE innovations
                   /\ pc' = at.pc
                   /\ qi' = at.qi
                   /\ idx' = at.idx
                   /\ UNCHANGED raised
              ELSE /\ raised' = [t |-> "exception", exc |-> got.exc,
                                from |-> "assess_innovation_potential"]
                   /\ pc' = "error"
                   /\ UNCHANGED <<innovations, qi, idx>>
    /\ UNCHANGED <<now, repo, outcome, response, repos, requests, result>>

\* opportunities = self.package_patent_opportunities(...); return
Package ==
    /\ pc = "package"
    /\ result' =
           package_patent_opportunities(expired_patents, trending_techs,
                                        innovations)
    /\ pc' = "done"
    /\ UNCHANGED <<now, repo, outcome, qi, response, repos, idx, innovations,
                   requests, assessed, raised>>

Next == Scrape \/ SearchRepos \/ AssessRepo \/ Package

Spec == Init /\ [][Next]_vars

-----------------------------------------------------------------------------
(* What the properties are stated with.  These are written from the        *)
(* statements, not from the program: lower-casing by two alphabets,        *)
(* occurrence character by character, the keywords as sets.                *)

Capitals ==
    << "A", "B", "C", "D", "E", "F", "G", "H", "I", "J", "K", "L", "M",
       "N", "O", "P", "Q", "R", "S", "T", "U", "V", "W", "X", "Y", "Z" >>

Smalls ==
    << "a", "b", "c", "d", "e", "f", "g", "h", "i", "j", "k", "l", "m",
       "n", "o", "p", "q", "r", "s", "t", "u", "v", "w", "x", "y", "z" >>

SmallOf(c) ==
    IF \E i \in 1..26 : Capitals[i] = c
    THEN Smalls[CHOOSE i \in 1..26 : Capitals[i] = c]
    ELSE c

CapitalOf(c) ==
    IF \E i \in 1..26 : Smalls[i] = c
    THEN Capitals[CHOOSE i \in 1..26 : Smalls[i] = c]
    ELSE c

InSmalls(d) == [i \in 1..Len(d) |-> SmallOf(d[i])]
InCapitals(d) == [i \in 1..Len(d) |-> CapitalOf(d[i])]

Occurs(k, d) ==
    \E i \in 1..Len(d) :
        /\ i + Len(k) - 1 <= Len(d)
        /\ \A j \in 1..Len(k) : d[i + j - 1] = k[j]

InnovationWords ==
    {KwNovel, KwNew, KwInnovative, KwBreakthrough, KwUnique, KwOriginal}

TechWords ==
    {KwAi, KwMachineLearning, KwBlockchain, KwAutomation, KwAlgorithm}

InnovationMatches(d) ==
    Cardinality({k \in InnovationWords : Occurs(k, InSmalls(d))})

TechMatches(d) ==
    Cardinality({k \in TechWords : Occurs(k, InSmalls(d))})

WellFormed(ts) == ts.form = "iso"

HasText(r) == "description" \in DOMAIN r /\ r.description.t = "str"

\* Age in whole days of a record with a well-formed timestamp.
AgeDays(r, t) ==
    LET ts == r.created_at
        utc == IF ts.zone = "+02:00" THEN ts.hour - 2 ELSE ts.hour
    IN  (t - utc) \div 24

RecencyPart(r, t) == IF AgeDays(r, t) < 90 THEN 20 ELSE 0

StarPart(r) == IF r.stargazers_count >= 30 THEN 30 ELSE r.stargazers_count

\* The points the rules accumulate before the clamp.
Unclamped(r, t) ==
    RecencyPart(r, t) + StarPart(r)
        + 10 * InnovationMatches(r.description.v)
        + 8 * TechMatches(r.description.v)

\* The call of SpecAssess has returned or raised, on a record with a
\* well-formed timestamp and a description string.
Scored == pc = "returned" /\ WellFormed(repo.created_at) /\ HasText(repo)

\* C1: for a record with a well-formed timestamp, a non-negative star count
\* and a description string, the assessor returns an integer between 0 and
\* 100, whatever the rules accumulate.
ScoreWithinBounds ==
    Scored => outcome.ok /\ outcome.value \in 0..100

\* C1 witness: the rules accumulate 150 points and 100 is returned.
ScoreClampedFrom150 ==
    Scored /\ Unclamped(repo, now) = 150 /\ outcome = Returned(100)

\* C2: the score is min(100, R + min(stars, 30) + 10 I + 8 T) with R = 20
\* below 90 days of age and 0 from 90 days on, I and T the numbers of
\* innovation and technology keywords occurring in the description.
ScoreFormula ==
    Scored =>
        /\ outcome.ok
        /\ outcome.value = Min(100, Unclamped(repo, now))
        /\ repo.stargazers_count >= 30 =>
               outcome.value
                   = Min(100, RecencyPart(repo, now) + 30
                                + 10 * InnovationMatches(repo.description.v)
                                + 8 * TechMatches(repo.description.v))

\* C2 witness: 200 days old, 50 stars, empty description, score 30.
OldPopularEmptyScores30 ==
    /\ Scored
    /\ AgeDays(repo, now) = 200
    /\ repo.stargazers_count = 50
    /\ repo.description.v = <<>>
    /\ outcome = Returned(30)

\* The record of the worked example: 10 days old, 5 stars, described as
\* "a novel AI algorithm".
IsWorkedExample ==
    /\ Scored
    /\ AgeDays(repo, now) = 10
    /\ repo.stargazers_count = 5
    /\ repo.description.v = DescNovelAiAlgorithm

\* C3 as stated: the worked example scores 43, with one technology keyword.
WorkedExampleScores43 ==
    IsWorkedExample =>
        /\ outcome = Returned(43)
        /\ InnovationMatches(repo.description.v) = 1
        /\ TechMatches(repo.description.v) = 1

\* C3 amended: the worked example scores 51: 20 for recency, 5 for stars,
\* 10 for one innovation keyword and 16 for two technology keywords, "ai"
\* and "algorithm".
WorkedExampleScores51 ==
    IsWorkedExample =>
        /\ outcome = Returned(51)
        /\ InnovationMatches(repo.description.v) = 1
        /\ TechMatches(repo.description.v) = 2
        /\ Occurs(KwAi, InSmalls(repo.description.v))
        /\ Occurs(KwAlgorithm, InSmalls(repo.description.v))

\* C3 witness: the worked example has been scored.
WorkedExampleScored == IsWorkedExample /\ outcome = Returned(51)

\* C5: keyword matching ignores letter case and finds substrings: the
\* record scores the same with its description in capitals or in small
\* letters, and below the clamp the keyword points are 10 and 8 for each
\* keyword occurring in the lower-cased description.
CaseInsensitiveSubstring ==
    Scored =>
        LET d == repo.description.v
            with(x) == [repo EXCEPT !.description = Str(x)]
        IN  /\ outcome.ok
            /\ assess_innovation_potential(with(InCapitals(d)), now) = outcome
            /\ assess_innovation_potential(with(InSmalls(d)), now) = outcome
            /\ outcome.value < 100 =>
                   outcome.value - RecencyPart(repo, now) - StarPart(repo)
                       = 10 * InnovationMatches(d) + 8 * TechMatches(d)

\* C5 witness: "INNOVATIVE" earns the 10 points of "innovative".
CapitalsMatch ==
    /\ Scored
    /\ repo.description.v = DescInnovativeUpper
    /\ outcome.ok
    /\ outcome.value = RecencyPart(repo, now) + StarPart(repo) + 10

\* C6 as stated: a missing or null description counts as the empty string:
\* the call returns min(100, recency points + min(stars, 30)).
AbsentDescriptionIsEmpty ==
    (pc = "returned" /\ WellFormed(repo.created_at) /\ ~HasText(repo)) =>
        /\ outcome.ok
        /\ outcome.value = Min(100, RecencyPart(repo, now) + StarPart(repo))

-----------------------------------------------------------------------------
(* Properties of the run.                                                  *)

Last(s) == s[Len(s)]

\* The assessor calls that returned a score above 70, in the order made.
Above70 == SelectSeq(assessed, LAMBDA a : a.outcome.ok /\ a.outcome.value > 70)

CallsOfQuery(q) == {j \in 1..Len(assessed) : assessed[j].query = q}

\* C4: a response with a status other than 200 gives the empty list and
\* raises nothing; a response with status 200 gives the item list of its
\* body, the empty list when the body has none.
SearchReposResult ==
    requests # <<>> =>
        /\ response.status_code # 200 => repos = <<>>
        /\ response.status_code = 200 =>
               repos = IF "items" \in DOMAIN response.body
                       THEN response.body.items
                       ELSE <<>>
        /\ raised # None => raised.from # "search_repos"

\* C4 witness: a non-200 response whose body carries items has been
\* answered with the empty list and the run has gone on to its end.
ErrorStatusGaveEmptyList ==
    /\ pc = "done"
    /\ response.status_code # 200
    /\ "items" \in DOMAIN response.body
    /\ response.body.items # <<>>
    /\ repos = <<>>

\* C7 as stated: a malformed timestamp in an assessed record ends the run
\* in an error with nothing returned and no further request, and no run
\* ends in an error in any other way.
OnlyMalformedTimestampFails ==
    /\ \A j \in 1..Len(assessed) :
           ~WellFormed(assessed[j].repo.created_at) =>
               /\ pc = "error"
               /\ j = Len(assessed)
               /\ result = None
               /\ Len(requests) = assessed[j].query
    /\ pc = "error" =>
           /\ assessed # <<>>
           /\ ~WellFormed(Last(assessed).repo.created_at)

\* C8: a record is retained exactly when its score is above 70: the list
\* holds, in order, the assessed records that scored above 70, each with
\* its score, which is between 71 and 100 and is what the assessor gives
\* for the entry's record (stated for the newest entry; the older ones do
\* not change).
RetainedAboveThreshold ==
    /\ Len(innovations) = Len(Above70)
    /\ \A j \in 1..Len(innovations) :
           /\ innovations[j].repo = Above70[j].repo
           /\ innovations[j].innovation_score = Above70[j].outcome.value
           /\ innovations[j].innovation_score \in 71..100
    /\ innovations # <<>> =>
           assess_innovation_potential(Last(innovations).repo, now)
               = Returned(Last(innovations).innovation_score)

\* C8 witness: a run has ended in which a record scoring 70 was dropped
\* and a record scoring 71 was kept.
Dropped70Kept71 ==
    /\ pc = "done"
    /\ \E j \in 1..Len(assessed) :
           /\ assessed[j].outcome = Returned(70)
           /\ \A k \in 1..Len(innovations) :
                  innovations[k].repo # assessed[j].repo
    /\ \E k \in 1..Len(innovations) : innovations[k].innovation_score = 71

\* C9 as stated: a run in which no record fails to parse issues exactly
\* three requests, one per query in the fixed order, each response
\* processed before the next request.
ThreeRequestsInOrder ==
    /\ Len(requests) <= 3
    /\ \A i \in 1..Len(requests) :
           /\ requests[i].query = innovative_queries[i]
           /\ (i < Len(requests) \/ pc \in {"search", "package", "done"}) =>
                  Cardinality(CallsOfQuery(i)) = Min(5, requests[i].returned)
    /\ ( /\ pc \in {"done", "error"}
         /\ \A j \in 1..Len(assessed) :
                WellFormed(assessed[j].repo.created_at) )
           => Len(requests) = 3

\* C10: only the first five records of a response are assessed, in list
\* order; each query contributes at most 5 entries and the list has at
\* most 15, in the order of the calls.
FirstFiveOnly ==
    /\ \A j \in 1..Len(assessed) :
           /\ assessed[j].position \in 1..5
           /\ assessed[j].query \in 1..3
           /\ assessed[j].query = Len(requests) =>
                  assessed[j].repo = repos[assessed[j].position]
           /\ j > 1 =>
                  \/ /\ assessed[j].query = assessed[j - 1].query
                     /\ assessed[j].position = assessed[j - 1].position + 1
                  \/ /\ assessed[j].query > assessed[j - 1].query
                     /\ assessed[j].position = 1
    /\ Len(repos) >= 6 /\ pc \in {"search", "package", "done"} =>
           Cardinality(CallsOfQuery(Len(requests))) = 5
    /\ \A q \in 1..3 :
           Cardinality({k \in 1..Len(Above70) : Above70[k].query = q}) <= 5
    /\ Len(innovations) <= 15
    /\ [k \in 1..Len(innovations) |-> innovations[k].repo]
           = [k \in 1..Len(Above70) |-> Above70[k].repo]

\* C10 witness: a run has ended with 15 entries although the last response
\* carried a sixth record, one with a malformed timestamp.
SixthRecordIgnored ==
    /\ pc = "done"
    /\ Len(innovations) = 15
    /\ Len(repos) >= 6
    /\ ~WellFormed(repos[6].created_at)

====
